---- MODULE Spec2Model ----
(***************************************************************************)
(* A model of native/jni/daemon/bootstages.cpp: the magic-mount node tree  *)
(* (node_entry), its composition from the module directories, the mount    *)
(* pass, and the boot-stage handlers that drive them.                      *)
(*                                                                         *)
(* Paths are sequences of names: "/system/etc/hosts" is                    *)
(* <<"system","etc","hosts">>.  MOUNTPOINT/<module>/<path> is              *)
(* <<"MNT", module>> \o path and MIRRDIR/<path> is <<"MIRR">> \o path.     *)
(***************************************************************************)
EXTENDS Integers, Sequences, FiniteSets, TLC

VARIABLES
    seperate_vendor, \* global flag set by startup's mirror setup
    live,            \* the live file system before any overlay: path -> kind
    modfs,           \* the files of each module directory: module -> (path -> kind)
    module_list,     \* static Array<CharArray> module_list
    setup_done,      \* global flag
    pc,              \* position of the post_fs_data handler
    mi,              \* index of the module loop in post_fs_data
    has_modules,     \* local of post_fs_data
    sys_root,        \* the system tree: path -> node
    ven_root,        \* the extracted vendor tree (NoTree: nullptr)
    log,             \* every effect on the outside world, in order
    ilog,            \* the insert() calls so far, in order
    view,            \* attributes of the paths the overlay has created or covered
    buf2,            \* static char buf2[PATH_MAX]
    spc,             \* position of startup
    lpc,             \* position of the late_start handler
    bpc,             \* position of the boot_complete handler
    files,           \* the files outside the modules that the stages test
    dev              \* /proc/mounts and the system properties of the device

treevars == <<has_modules, sys_root, ven_root, ilog, view, mi>>
vars == <<seperate_vendor, live, modfs, module_list, setup_done, pc, mi,
          has_modules, sys_root, ven_root, log, ilog, view, buf2,
          spc, lpc, bpc, files, dev>>

----------------------------------------------------------------------------
(* Bounds of the model *)

\* modules in the registry
MaxModules == 2
\* entries under system/ that the modules supply, all modules together
MaxEntries == 4

ModName == <<"a", "b", "c", "d">>

----------------------------------------------------------------------------
(* Status bits and types *)

IS_DUMMY == 1
IS_INTER == 2
IS_SKEL == 4
IS_MODULE == 8

HasBit(s, b) == (s \div b) % 2 = 1
OrBit(s, b) == IF HasBit(s, b) THEN s ELSE s + b

\* struct dirent d_type of a directory entry of kind k ("RDIR": a directory
\* holding a .replace marker)
d_type(k) == IF k = "RDIR" THEN "DIR" ELSE k

----------------------------------------------------------------------------
(* Paths *)

IsPrefix(p, q) == Len(p) <= Len(q) /\ SubSeq(q, 1, Len(p)) = p
Last(p) == p[Len(p)]
SysPath == <<"system">>
VenPath == <<"vendor">>
SysVendor == <<"system", "vendor">>
MNT(module, p) == <<"MNT", module>> \o p
MIRR(p) == <<"MIRR">> \o p

\* the order in which readdir returns the names of a directory
NameOrder == <<"etc", "f1", "hosts", "lib", "sub", "vendor", "x">>
SortNames(S) == SelectSeq(NameOrder, LAMBDA n : n \in S)

\* the names directly inside directory p of a file tree fs (path -> kind)
ChildNames(fs, p) ==
    {Last(q) : q \in {q \in DOMAIN fs : Len(q) = Len(p) + 1 /\ IsPrefix(p, q)}}

----------------------------------------------------------------------------
(* The live file system *)

\* path resolution through the two directory symlinks a device has:
\* /system/vendor -> /vendor (separate vendor partition), or
\* /vendor -> /system/vendor (no vendor partition)
Resolve(p) ==
    IF IsPrefix(SysVendor, p) /\ SysVendor \in DOMAIN live /\ live[SysVendor] = "LNK"
    THEN VenPath \o SubSeq(p, 3, Len(p))
    ELSE IF IsPrefix(VenPath, p) /\ VenPath \in DOMAIN live /\ live[VenPath] = "LNK"
    THEN SysVendor \o SubSeq(p, 2, Len(p))
    ELSE p

\* access(p, F_OK) == 0
access(p) == Resolve(p) \in DOMAIN live

\* xstat(p, &s): the wrapper of stat(2), declared beside xlstat. stat follows
\* a symlink, so the kind it reports is the link target's: a file link of
\* the model points at a regular file, the vendor links at a directory.
xstat(p) ==
    LET k == live[Resolve(p)]
    IN  IF k = "LNK" THEN "REG" ELSE k

S_ISLNK(k) == k = "LNK"

\* file_attr of a live directory
LiveAttr(p) ==
    [mode |-> 493, uid |-> 0, gid |-> IF Last(p) = "bin" THEN 2000 ELSE 0,
     con |-> IF Resolve(p)[1] = "vendor" THEN "vendor_file" ELSE "system_file"]
\* file_attr of a directory xmkdir(path, 0755) creates in a tmpfs
MkdirAttr == [mode |-> 493, uid |-> 0, gid |-> 0, con |-> "tmpfs"]
\* file_attr of the root of a fresh tmpfs
TmpfsAttr == [mode |-> 1023, uid |-> 0, gid |-> 0, con |-> "tmpfs"]
NoAttr == [mode |-> 0, uid |-> 0, gid |-> 0, con |-> ""]

\* getattr(p) in the file system as the overlay has changed it so far
getattr(vw, p) ==
    LET r == Resolve(p) IN IF r \in DOMAIN vw THEN vw[r] ELSE LiveAttr(r)

\* the live directory that MIRRDIR/<p> shows
MirrorLive(p) ==
    IF p[1] = "vendor" /\ ~seperate_vendor THEN Resolve(SysPath \o p) ELSE Resolve(p)

----------------------------------------------------------------------------
(* node_entry *)

NoTree == <<>>
NoModule == "none"

Node(type, status, module) ==
    [type |-> type, status |-> status, module |-> module, children |-> <<>>]

is_root(p) == Len(p) = 1

\* a search that never finds the name
never_found(t, p, name) == FALSE
HasChild(t, p, name) == \E i \in 1..Len(t[p].children) : t[p].children[i] = name

\* the nodes of t at and beneath p
Subtree(t, p) == [q \in {q \in DOMAIN t : IsPrefix(p, q)} |-> t[q]]
Without(t, p) == [q \in {q \in DOMAIN t : ~IsPrefix(p, q)} |-> t[q]]

\* the children of `this` after push_back of one more node
push_back(children, name) == Append(children, name)

\* the comparison with >= in place of >: a node of equal status replaces
HigherOrEqual(new, old) == new >= old
\* the comparison turned around
Lower(new, old) == new < old
\* the test of insert: the new node has higher precedence
Higher(new, old) == new > old

\* an insert that does not look for a child of the same name
insert_blind(t, p, name, node) ==
    LET cp == Append(p, name)
        t2 == (cp :> node) @@ [t EXCEPT ![p].children = push_back(@, name)]
    IN  [tree |-> t2, eff |-> cp,
         rec |-> [path |-> cp, new |-> node, collide |-> FALSE, replaced |-> FALSE,
                  old |-> NoTree, kept |-> Subtree(t2, cp)]]

\* node_entry::insert on the node at p: the tree after it, the path of the
\* node it returns, and a record of the call
insert(t, p, name, node) ==
    LET cp == Append(p, name)
    IN  IF HasChild(t, p, name)
        THEN IF Higher(node.status, t[cp].status)
             THEN LET t2 == (cp :> node) @@ Without(t, cp)
                  IN  [tree |-> t2, eff |-> cp,
                       rec |-> [path |-> cp, new |-> node, collide |-> TRUE,
                                replaced |-> TRUE,
                                old |-> Subtree(t, cp), kept |-> Subtree(t2, cp)]]
             ELSE [tree |-> t, eff |-> cp,
                   rec |-> [path |-> cp, new |-> node, collide |-> TRUE,
                            replaced |-> FALSE,
                            old |-> Subtree(t, cp), kept |-> Subtree(t, cp)]]
        ELSE LET t2 == (cp :> node) @@ [t EXCEPT ![p].children = push_back(@, name)]
             IN  [tree |-> t2, eff |-> cp,
                  rec |-> [path |-> cp, new |-> node, collide |-> FALSE,
                           replaced |-> FALSE,
                           old |-> NoTree, kept |-> Subtree(t2, cp)]]

----------------------------------------------------------------------------
(* node_entry::create_module_tree *)

\* xopendir(MOUNTPOINT/<module>/<p>) succeeds
ModIsDir(module, p) ==
    p \in DOMAIN modfs[module] /\ d_type(modfs[module][p]) = "DIR"

\* the access test turned around: an entry whose target exists asks for a clone
clone_when_present(p, name, dtype) ==
    \/ dtype = "LNK"
    \/ access(Append(p, name))
\* the test that marks the parent as a skeleton (lines 141-149)
clone_test(p, name, dtype) ==
    \/ dtype = "LNK"
    \/ ~access(Append(p, name))
    \/ /\ (~is_root(p) \/ name # "vendor")
       /\ S_ISLNK(xstat(Append(p, name)))

\* a status that takes a directory with .replace for an intermediate node
replace_ignored(clone, kind) ==
    IF clone THEN IS_MODULE
    ELSE IF d_type(kind) = "DIR" THEN IS_INTER
         ELSE IF d_type(kind) = "REG" THEN IS_MODULE ELSE 0
\* the status the new node gets (lines 151-168); 0 when no branch assigns it
entry_status(clone, kind) ==
    IF clone THEN IS_MODULE
    ELSE IF d_type(kind) = "DIR"
         THEN (IF kind = "RDIR" THEN IS_MODULE ELSE IS_INTER)
         ELSE IF d_type(kind) = "REG" THEN IS_MODULE ELSE 0

\* the flag added to the status instead of or-ed into it
skel_added(status) == status + IS_SKEL
\* the status of `this` after an entry that asks for a clone
mark_skel(status) == OrBit(status, IS_SKEL)

\* a walk that travels into every node insert returns
travel_always(status) == status >= 0
\* whether create_module_tree travels into the node insert returned
travel(status) == HasBit(status, IS_SKEL) \/ HasBit(status, IS_INTER)

RECURSIVE create_module_tree(_, _, _)
RECURSIVE cmt_entries(_, _, _, _)

\* s = [tree, ilog, buf2]; the walk of MOUNTPOINT/<module>/<p> from node p
create_module_tree(s, p, module) ==
    IF ~ModIsDir(module, p) THEN s
    ELSE cmt_entries(s, p, module, SortNames(ChildNames(modfs[module], p)))

cmt_entries(s, p, module, names) ==
    IF names = <<>> THEN s
    ELSE
    LET name == Head(names)
        tp == Append(p, name)
        kind == modfs[module][tp]
        clone == clone_test(p, name, d_type(kind))
        t1 == IF clone THEN [s.tree EXCEPT ![p].status = mark_skel(@)] ELSE s.tree
        node == Node(d_type(kind), entry_status(clone, kind), module)
        b2 == IF ~clone /\ d_type(kind) = "DIR"
              THEN MNT(module, Append(tp, ".replace")) ELSE s.buf2
        r == insert(t1, p, name, node)
        s1 == [tree |-> r.tree, ilog |-> Append(s.ilog, r.rec), buf2 |-> b2]
        s2 == IF travel(r.tree[r.eff].status)
              THEN create_module_tree(s1, r.eff, module) ELSE s1
    IN  cmt_entries(s2, p, module, Tail(names))

----------------------------------------------------------------------------
(* node_entry::clone_skeleton and node_entry::magic_mount *)

Ev(who, op, src, dst, attr) ==
    [who |-> who, op |-> op, src |-> src, dst |-> dst, attr |-> attr]

\* mount("tmpfs", p): the directory p names becomes the root of an empty tmpfs
mount_tmpfs(vw, p) ==
    LET r == Resolve(p)
    IN  (r :> TmpfsAttr) @@ [q \in {q \in DOMAIN vw : ~IsPrefix(r, q)} |-> vw[q]]

\* xmkdir(p, 0755)
xmkdir(vw, p) ==
    LET r == Resolve(p) IN IF r \in DOMAIN vw THEN vw ELSE (r :> MkdirAttr) @@ vw

\* setattr(p, attr)
setattr(vw, p, attr) == (Resolve(p) :> attr) @@ vw

\* the attributes clone_skeleton captures for the tmpfs it mounts on p
captured_attr(vw, p) == getattr(vw, p)

\* whether clone_skeleton mounts a tmpfs on the node
mounts_tmpfs(status) == HasBit(status, IS_SKEL)

\* whether clone_skeleton skips the child (lines 215-221)
vendor_skip(p, name) == is_root(p) /\ name = "vendor"

RECURSIVE clone_skeleton(_, _)
RECURSIVE cs_dummies(_, _, _)
RECURSIVE cs_children(_, _, _)
RECURSIVE magic_mount(_, _)
RECURSIVE mm_children(_, _, _)

\* st = [who, tree, log, ilog, view, buf2]
cs_dummies(st, p, names) ==
    IF names = <<>> THEN st
    ELSE LET name == Head(names)
             dummy == Node(live[Append(MirrorLive(p), name)], IS_DUMMY, NoModule)
             r == insert(st.tree, p, name, dummy)
         IN  cs_dummies([st EXCEPT !.tree = r.tree, !.ilog = Append(@, r.rec)],
                        p, Tail(names))

\* a clone_skeleton that handles the children first and mounts the tmpfs last
tmpfs_last(st, p) ==
    LET m == MirrorLive(p)
    IN  IF ~(m \in DOMAIN live /\ live[m] = "DIR") THEN st
        ELSE
        LET s1 == cs_dummies(st, p, SortNames(ChildNames(live, m)))
            s2 == cs_children(s1, p, s1.tree[p].children)
            attr == captured_attr(s2.view, p)
        IN  IF mounts_tmpfs(s2.tree[p].status)
            THEN [s2 EXCEPT
                    !.log = @ \o <<Ev(st.who, "tmpfs", <<"tmpfs">>, p, NoAttr),
                                   Ev(st.who, "setattr", <<>>, p, attr)>>,
                    !.view = setattr(mount_tmpfs(@, p), p, attr)]
            ELSE s2

clone_skeleton(st, p) ==
    LET m == MirrorLive(p)
    IN  IF ~(m \in DOMAIN live /\ live[m] = "DIR") THEN st
        ELSE
        LET s1 == cs_dummies(st, p, SortNames(ChildNames(live, m)))
            attr == captured_attr(s1.view, p)
            s2 == IF mounts_tmpfs(s1.tree[p].status)
                  THEN [s1 EXCEPT
                          !.log = @ \o <<Ev(st.who, "tmpfs", <<"tmpfs">>, p, NoAttr),
                                         Ev(st.who, "setattr", <<>>, p, attr)>>,
                          !.view = setattr(mount_tmpfs(@, p), p, attr)]
                  ELSE s1
        IN  cs_children(s2, p, s2.tree[p].children)

cs_children(st, p, names) ==
    IF names = <<>> THEN st
    ELSE
    LET name == Head(names)
        cp == Append(p, name)
        child == st.tree[cp]
        \* the dummy file or directory
        s1 == IF child.type = "DIR"
              THEN [st EXCEPT !.log = Append(@, Ev(st.who, "mkdir", <<>>, cp, NoAttr)),
                              !.view = xmkdir(@, cp)]
              ELSE IF child.type = "REG"
              THEN [st EXCEPT !.log = Append(@, Ev(st.who, "creat", <<>>, cp, NoAttr))]
              ELSE st
        s2 == IF vendor_skip(p, name)
              THEN (IF seperate_vendor
                    THEN [s1 EXCEPT !.log = Append(@,
                             Ev(st.who, "cp_afc", MIRR(SysVendor), SysVendor, NoAttr))]
                    ELSE s1)
              ELSE IF HasBit(child.status, IS_MODULE)
              THEN [s1 EXCEPT !.buf2 = MNT(child.module, cp)]
              ELSE IF HasBit(child.status, IS_SKEL) \/ HasBit(child.status, IS_INTER)
              THEN clone_skeleton(s1, cp)
              ELSE IF HasBit(child.status, IS_DUMMY)
              THEN [s1 EXCEPT !.buf2 = MIRR(cp)]
              ELSE s1
        skip == \/ vendor_skip(p, name)
                \/ /\ ~HasBit(child.status, IS_MODULE)
                   /\ (HasBit(child.status, IS_SKEL) \/ HasBit(child.status, IS_INTER))
        s3 == IF skip THEN s2
              ELSE IF child.type = "LNK"
              THEN [s2 EXCEPT !.log = Append(@, Ev(st.who, "cp_afc", s2.buf2, cp, NoAttr))]
              ELSE [s2 EXCEPT !.log = Append(@, Ev(st.who, "bind", s2.buf2, cp, NoAttr))]
    IN  cs_children(s3, p, Tail(names))

magic_mount(st, p) ==
    LET n == st.tree[p]
    IN  IF HasBit(n.status, IS_MODULE)
        THEN [st EXCEPT !.log = Append(@, Ev(st.who, "bind", MNT(n.module, p), p, NoAttr))]
        ELSE IF HasBit(n.status, IS_SKEL) THEN clone_skeleton(st, p)
        ELSE IF HasBit(n.status, IS_INTER) THEN mm_children(st, p, n.children)
        ELSE st

mm_children(st, p, names) ==
    IF names = <<>> THEN st
    ELSE mm_children(magic_mount(st, Append(p, Head(names))), p, Tail(names))

----------------------------------------------------------------------------
(* node_entry::extract *)

\* an extract that finds no child and returns nullptr
nothing_detached(t, name) == NoTree
\* the subtree of t at <<"system", name>> as a tree of its own, rooted at
\* <<name>>: its root has no parent, so get_path starts at its name
detached(t, name) ==
    LET from == Append(SysPath, name)
        keys == {q \in DOMAIN t : IsPrefix(from, q)}
    IN  [r \in {<<name>> \o SubSeq(q, 3, Len(q)) : q \in keys} |->
            t[SysPath \o r]]

\* the child left where it is
not_swapped(t, name) == t
\* the tree that stays: the child is swapped with a placeholder node_entry(name)
placeholder(t, name) ==
    (Append(SysPath, name) :> Node("NONE", 0, NoModule))
        @@ Without(t, Append(SysPath, name))

----------------------------------------------------------------------------
(* The inputs: the device's live file system and the module directories *)

Only(p, k) == p :> k
NoFiles == <<>>

P_etc == <<"system", "etc">>
P_hosts == <<"system", "etc", "hosts">>
P_sub == <<"system", "etc", "sub">>
P_x == <<"system", "etc", "sub", "x">>
P_lib == <<"system", "vendor", "lib">>
P_f1 == <<"system", "f1">>

\* /system/etc of the device: hosts is absent, a file or a link to a file;
\* sub is absent or a directory
LiveEtc ==
    {Only(P_etc, "DIR") @@ h @@ s :
        h \in {NoFiles, Only(P_hosts, "REG"), Only(P_hosts, "LNK")},
        s \in {NoFiles, Only(P_sub, "DIR")}}

\* a device with a vendor partition (/system/vendor -> /vendor) or without
\* one (/vendor -> /system/vendor)
LiveVendor(sep) ==
    IF sep
    THEN {Only(SysVendor, "LNK") @@ Only(VenPath, "DIR") @@ l :
             l \in {NoFiles, Only(<<"vendor", "lib">>, "REG")}}
    ELSE {Only(SysVendor, "DIR") @@ Only(VenPath, "LNK") @@ Only(P_lib, "REG")}

LiveConfigs ==
    UNION {{[sep |-> sep, live |-> Only(SysPath, "DIR") @@ e @@ v] :
               e \in LiveEtc, v \in LiveVendor(sep)} : sep \in BOOLEAN}

\* a line of /proc/mounts is a sequence of fields (device, mount point,
\* type, options, 0, 0) that single spaces separate; a field is a sequence
\* of pieces of text
MountLine(device, point, type) ==
    <<device, <<point>>, <<type>>, <<"rw">>, <<"0">>, <<"0">>>>

\* the lines /proc/mounts may hold
DataExt4 == MountLine(<<"/dev/block/dm-0">>, "/data", "ext4")
DataTmpfs == MountLine(<<"tmpfs">>, "/data", "tmpfs")
DataOnTmpfsNamedDevice == MountLine(<<"/dev/block/", "tmpfs", "0">>, "/data", "ext4")
DataAsDevice == MountLine(<<"/data">>, "/mnt", "ext4")
SystemExt4 == MountLine(<<"/dev/block/dm-1">>, "/system", "ext4")
SystemRootExt4 == MountLine(<<"/dev/block/dm-1">>, "/system_root", "ext4")
VendorExt4 == MountLine(<<"/dev/block/dm-2">>, "/vendor", "ext4")
MountLines == {DataExt4, DataTmpfs, DataOnTmpfsNamedDevice, DataAsDevice, SystemExt4}

\* the lines of a set in the order the file lists them
LineOrder ==
    <<SystemExt4, VendorExt4, DataExt4, DataTmpfs, DataOnTmpfsNamedDevice, DataAsDevice>>
InOrder(lines) == SelectSeq(LineOrder, LAMBDA l : l \in lines)

\* mounts is the content of /proc/mounts, line by line
Device(mounts, crypto, vold) == [mounts |-> mounts, crypto |-> crypto, vold |-> vold]
\* a device whose /data is mounted and not encrypted, with a vendor
\* partition of its own or without one
DeviceOf(sep) ==
    Device(InOrder({SystemExt4, DataExt4} \cup (IF sep THEN {VendorExt4} ELSE {})),
           "unencrypted", "")
UsableDevice == DeviceOf(FALSE)
\* every device: ro.crypto.state and init.svc.vold set or not
Devices ==
    {Device(InOrder(m), c, v) : m \in SUBSET MountLines,
                                c \in {"", "unencrypted", "encrypted"},
                                v \in {"", "running"}}
\* the devices of the whole-boot model: /data usable, a tmpfs for now, or
\* encrypted with vold not started
BootDevices(sep) ==
    LET v == IF sep THEN {VendorExt4} ELSE {}
    IN  {DeviceOf(sep),
         Device(InOrder({SystemExt4, DataTmpfs} \cup v), "encrypted", "running"),
         Device(InOrder({SystemExt4, DataExt4} \cup v), "encrypted", "")}

\* the longest /proc/mounts of the devices that differ in their mirrors
MaxLines == 3
\* /data first, then up to MaxLines lines for /system_root, /system and
\* /vendor, in any order and any number of times
MirrorDevices ==
    {Device(<<DataExt4>> \o m, "unencrypted", "") :
        m \in UNION {[1..n -> {SystemRootExt4, SystemExt4, VendorExt4}] : n \in 0..MaxLines}}

\* what a module may hold under system/
ModEtc ==
    {NoFiles, Only(P_etc, "RDIR"), Only(P_etc, "RDIR") @@ Only(P_hosts, "REG")} \cup
    {Only(P_etc, "DIR") @@ h @@ s :
        h \in {NoFiles, Only(P_hosts, "REG"), Only(P_hosts, "LNK"),
               Only(P_hosts, "FIFO")},
        s \in {NoFiles, Only(P_sub, "DIR"), Only(P_sub, "DIR") @@ Only(P_x, "REG")}}
ModVendor ==
    {NoFiles, Only(SysVendor, "DIR") @@ Only(P_lib, "REG")}
ModF1 == {NoFiles, Only(P_f1, "REG")}

SystemShapes ==
    {Only(SysPath, "DIR") @@ e @@ v @@ f : e \in ModEtc, v \in ModVendor, f \in ModF1}

\* the entries a module supplies under system/
Entries(shape) ==
    Cardinality({q \in DOMAIN shape : IsPrefix(SysPath, q) /\ q # SysPath})

\* a module without the auto_mount marker
Unmounted == Only(SysPath, "DIR") @@ Only(P_etc, "DIR") @@ Only(P_hosts, "REG")

ModShapes(budget) ==
    {Unmounted} \cup
    {Only(<<"auto_mount">>, "REG") @@ sh :
        sh \in {sh \in SystemShapes : Entries(sh) <= budget}}

Cost(shape) ==
    IF <<"auto_mount">> \in DOMAIN shape /\ SysPath \in DOMAIN shape
    THEN Entries(shape) ELSE 0

\* the module directories of the first k modules of the registry
RECURSIVE ModConfigs(_, _)
ModConfigs(k, budget) ==
    IF k = 0 THEN {NoFiles}
    ELSE UNION {{(ModName[k] :> sh) @@ f : f \in ModConfigs(k - 1, budget - Cost(sh))} :
                   sh \in ModShapes(budget)}

----------------------------------------------------------------------------
(* post_fs_data from the module loop on (lines 806-851) *)

RootNode == Node("NONE", IS_INTER, NoModule)

InitTree ==
    /\ \E c \in LiveConfigs :
          live = c.live /\ seperate_vendor = c.sep /\ dev = DeviceOf(c.sep)
    /\ \E k \in 0..MaxModules :
          /\ module_list = SubSeq(ModName, 1, k)
          /\ modfs \in ModConfigs(k, MaxEntries)
    /\ setup_done = TRUE
    /\ pc = "pfd_load"
    /\ mi = 1
    /\ has_modules = FALSE
    /\ sys_root = (SysPath :> RootNode)
    /\ ven_root = NoTree
    /\ log = <<>>
    /\ ilog = <<>>
    /\ view = <<>>
    /\ buf2 = IF module_list = <<>> THEN <<"CORE", "post-fs-data.d">>
              ELSE MNT(module_list[Len(module_list)], <<"post-fs-data.sh">>)
    /\ spc = "handoff"
    /\ lpc = "idle"
    /\ bpc = "idle"
    /\ files = {"mainimg", "mounted", "secure_dir"}

Has(module, p) == p \in DOMAIN modfs[module]

\* one turn of the loop over module_list (lines 815-842)
LoadModule ==
    /\ pc = "pfd_load" /\ mi <= Len(module_list)
    /\ LET module == module_list[mi]
           prop == Has(module, <<"system.prop">>)
           log1 == IF prop
                   THEN Append(log, Ev("post_fs_data", "load_prop",
                                       MNT(module, <<"system.prop">>), <<>>, NoAttr))
                   ELSE log
           construct == Has(module, <<"auto_mount">>) /\ Has(module, SysPath)
           link == construct /\ Has(module, SysVendor)
           s == create_module_tree(
                    [tree |-> sys_root, ilog |-> ilog,
                     buf2 |-> IF link THEN MNT(module, VenPath) ELSE buf2],
                    SysPath, module)
       IN  /\ log' = IF link
                     THEN Append(log1, Ev("post_fs_data", "symlink",
                                  MNT(module, SysVendor), MNT(module, VenPath), NoAttr))
                     ELSE log1
           /\ modfs' = IF link
                       THEN [modfs EXCEPT ![module] = Only(VenPath, "LNK") @@ @]
                       ELSE modfs
           /\ has_modules' = (has_modules \/ construct)
           /\ sys_root' = IF construct THEN s.tree ELSE sys_root
           /\ ilog' = IF construct THEN s.ilog ELSE ilog
           /\ buf2' = IF construct THEN s.buf2 ELSE buf2
    /\ mi' = mi + 1
    /\ UNCHANGED <<seperate_vendor, live, dev, module_list, setup_done, pc, ven_root,
                   view, spc, lpc, bpc, files>>

\* ven_root = sys_root->extract("vendor") (lines 844-846)
Extract ==
    /\ pc = "pfd_load" /\ mi > Len(module_list) /\ has_modules
    /\ IF HasChild(sys_root, SysPath, "vendor")
       THEN /\ ven_root' = detached(sys_root, "vendor")
            /\ sys_root' = placeholder(sys_root, "vendor")
       ELSE UNCHANGED <<sys_root, ven_root>>
    /\ pc' = "pfd_mount_sys"
    /\ UNCHANGED <<seperate_vendor, live, dev, modfs, module_list, setup_done, mi,
                   has_modules, log, ilog, view, buf2, spc, lpc, bpc, files>>

\* no module asked for a mount: the block at lines 844-851 is skipped
SkipMount ==
    /\ pc = "pfd_load" /\ mi > Len(module_list) /\ ~has_modules
    /\ pc' = "pfd_cleanup"
    /\ UNCHANGED <<seperate_vendor, live, dev, modfs, module_list, setup_done, mi,
                   has_modules, sys_root, ven_root, log, ilog, view, buf2, spc, lpc,
                   bpc, files>>

\* sys_root->magic_mount() (line 849)
MagicMountSys ==
    /\ pc = "pfd_mount_sys"
    /\ LET st == magic_mount([who |-> "magic_sys", tree |-> sys_root, log |-> log,
                              ilog |-> ilog, view |-> view, buf2 |-> buf2], SysPath)
       IN  /\ sys_root' = st.tree
           /\ log' = st.log
           /\ ilog' = st.ilog
           /\ view' = st.view
           /\ buf2' = st.buf2
    /\ pc' = "pfd_mount_ven"
    /\ UNCHANGED <<seperate_vendor, live, dev, modfs, module_list, setup_done, mi,
                   has_modules, ven_root, spc, lpc, bpc, files>>

\* if (ven_root) ven_root->magic_mount() (line 850)
MagicMountVen ==
    /\ pc = "pfd_mount_ven"
    /\ IF ven_root # NoTree
       THEN LET st == magic_mount([who |-> "magic_ven", tree |-> ven_root, log |-> log,
                                   ilog |-> ilog, view |-> view, buf2 |-> buf2], VenPath)
            IN  /\ ven_root' = st.tree
                /\ log' = st.log
                /\ ilog' = st.ilog
                /\ view' = st.view
                /\ buf2' = st.buf2
       ELSE UNCHANGED <<ven_root, log, ilog, view, buf2>>
    /\ pc' = "pfd_cleanup"
    /\ UNCHANGED <<seperate_vendor, live, dev, modfs, module_list, setup_done, mi,
                   has_modules, sys_root, spc, lpc, bpc, files>>

Next == LoadModule \/ Extract \/ SkipMount \/ MagicMountSys \/ MagicMountVen

Spec == InitTree /\ [][Next]_vars

----------------------------------------------------------------------------
(* Scripts *)

\* the path of access(path, F_OK) == 0 inside the module image
img_access(fs, fl, module, p) ==
    "mounted" \in fl /\ module \in DOMAIN fs /\ p \in DOMAIN fs[module]

\* whether exec_module_script runs the script of a module (line 332)
runs_script(fs, fl, module, stage) ==
    /\ img_access(fs, fl, module, <<stage \o ".sh">>)
    /\ ~img_access(fs, fl, module, <<"disable">>)

RECURSIVE service_at_any_stage(_, _, _, _)
\* a loop that runs service.sh whatever the stage it is called for
service_at_any_stage(s, who, stage, mods) ==
    IF mods = <<>> THEN s
    ELSE LET module == Head(mods)
             script == MNT(module, <<"service.sh">>)
             s1 == [log |-> IF runs_script(modfs, files, module, "service")
                            THEN Append(s.log, Ev(who, "exec_module", script, <<>>, NoAttr))
                            ELSE s.log,
                    buf2 |-> script]
         IN  service_at_any_stage(s1, who, stage, Tail(mods))

RECURSIVE exec_module_script(_, _, _, _)
\* s = [log, buf2]; the loop over the modules that are left
exec_module_script(s, who, stage, mods) ==
    IF mods = <<>> THEN s
    ELSE LET module == Head(mods)
             script == MNT(module, <<stage \o ".sh">>)
             s1 == [log |-> IF runs_script(modfs, files, module, stage)
                            THEN Append(s.log, Ev(who, "exec_module", script, <<>>, NoAttr))
                            ELSE s.log,
                    buf2 |-> script]
         IN  exec_module_script(s1, who, stage, Tail(mods))

\* exec_common_script: COREDIR/<stage>.d holds one executable script or none
exec_common_script(s, who, stage) ==
    IF "mounted" \notin files THEN [s EXCEPT !.buf2 = <<"CORE", stage \o ".d">>]
    ELSE IF ("common_" \o stage) \in files
    THEN [log |-> Append(s.log, Ev(who, "exec_common",
                                   <<"CORE", stage \o ".d", "s.sh">>, <<>>, NoAttr)),
          buf2 |-> <<"CORE", stage \o ".d", "s.sh">>]
    ELSE [s EXCEPT !.buf2 = <<"CORE", stage \o ".d">>]

----------------------------------------------------------------------------
(* prepare_img *)

\* the order in which readdir returns the entries of the image's root
ImgOrder == <<".core", "a", "b", "c", "d", "lost+found", "readme">>

\* the entries of the root of the image fs: its directories, and the
\* regular file readme when the image holds one
ImgEntries(fs, fl) ==
    LET names == DOMAIN fs \cup (IF "img_readme" \in fl THEN {"readme"} ELSE {})
        sorted == SelectSeq(ImgOrder, LAMBDA n : n \in names)
    IN  [i \in 1..Len(sorted) |->
            [d_name |-> sorted[i],
             d_type |-> IF sorted[i] \in DOMAIN fs THEN "DIR" ELSE "REG"]]

\* a skip that forgets lost+found
skips_core_only(name) == name = ".core"
\* the directories the enumeration passes over (lines 427-431)
skipped_dir(name) == name \in {".", "..", ".core", "lost+found"}

\* xmkdir of COREDIR and of its three directories (lines 418-421)
with_core(fs) ==
    IF ".core" \in DOMAIN fs THEN fs
    ELSE (".core" :> (Only(<<"post-fs-data.d">>, "DIR") @@ Only(<<"service.d">>, "DIR")
                        @@ Only(<<"props">>, "DIR"))) @@ fs

RECURSIVE enumerate(_, _)
\* s = [fs, list, log]; the loop at lines 425-445 over the entries left
enumerate(s, entries) ==
    IF entries = <<>> THEN s
    ELSE
    LET name == Head(entries).d_name
        rest == Tail(entries)
    IN  IF Head(entries).d_type # "DIR" THEN enumerate(s, rest)
        ELSE IF skipped_dir(name) THEN enumerate(s, rest)
        ELSE IF <<"remove">> \in DOMAIN s.fs[name]
        THEN enumerate([s EXCEPT
                 !.fs = [m \in DOMAIN s.fs \ {name} |-> s.fs[m]],
                 !.log = Append(@, Ev("post_fs_data", "rm_rf", <<>>, <<"MNT", name>>,
                                      NoAttr))],
               rest)
        ELSE
        LET fs1 == [s.fs EXCEPT ![name] =
                       [q \in DOMAIN s.fs[name] \ {<<"update">>} |-> s.fs[name][q]]]
            log1 == Append(s.log, Ev("post_fs_data", "unlink", <<>>,
                                     <<"MNT", name, "update">>, NoAttr))
        IN  IF <<"disable">> \in DOMAIN s.fs[name]
            THEN enumerate([s EXCEPT !.fs = fs1, !.log = log1], rest)
            ELSE enumerate([fs |-> fs1, list |-> Append(s.list, name), log |-> log1],
                           rest)

\* the step at which prepare_img can fail: create_img is called only when
\* MAINIMG does not exist
CanFail(step, fl) == step # "create" \/ "mainimg" \notin fl

\* prepare_img failing at `fail` ("none": it returns 0) with the image left
\* mounted or not by a failed trim_img
prepare_img(fail, left_mounted) ==
    LET P(op) == Ev("post_fs_data", op, <<>>, <<"MAINIMG">>, NoAttr)
        l1 == Append(log, P("merge_img"))
        l2 == IF "mainimg" \in files THEN l1 ELSE Append(l1, P("create_img"))
        l3 == Append(l2, P("mount_image"))
        l4 == Append(l3, Ev("post_fs_data", "mkdir", <<>>, <<"CORE">>, NoAttr))
        e == enumerate([fs |-> with_core(modfs), list |-> module_list, log |-> l4],
                       ImgEntries(with_core(modfs), files))
        l5 == Append(e.log, P("trim_img"))
    IN  IF fail = "merge"
        THEN [ret |-> 1, log |-> l1, fs |-> modfs, list |-> module_list, files |-> files]
        ELSE IF fail = "create"
        THEN [ret |-> 1, log |-> l2, fs |-> modfs, list |-> module_list, files |-> files]
        ELSE IF fail = "mount"
        THEN [ret |-> 1, log |-> l3, fs |-> modfs, list |-> module_list,
              files |-> files \cup {"mainimg"}]
        ELSE [ret |-> IF fail = "trim" THEN 1 ELSE 0, log |-> l5, fs |-> e.fs,
              list |-> e.list,
              files |-> (files \cup {"mainimg"}) \cup
                        (IF fail = "trim" /\ ~left_mounted THEN {} ELSE {"mounted"})]

----------------------------------------------------------------------------
(* The boot stages *)

\* write_int(client, 0); close(client)
ack(who) ==
    <<Ev(who, "write_int", <<"0">>, <<"client">>, NoAttr),
      Ev(who, "close", <<>>, <<"client">>, NoAttr)>>

\* auto_start_magiskhide: the hide daemon starts unless the log daemon does
\* not or the property says 0
auto_start_magiskhide(who, hide) ==
    IF hide THEN <<Ev(who, "magiskhide", <<>>, <<>>, NoAttr)>> ELSE <<>>

\* unblock_boot_process
unblock_boot_process(who) == <<Ev(who, "unblock", <<>>, <<"UNBLOCKFILE">>, NoAttr)>>

\* line.contains(" /data "): a field with a space on both sides is /data
contains_data(line) == \E i \in 2..(Len(line) - 1) : line[i] = <<"/data">>
\* line.contains("tmpfs"): the text occurs somewhere in the line
contains_tmpfs(line) ==
    \E i \in 1..Len(line) : \E j \in 1..Len(line[i]) : line[i][j] = "tmpfs"

\* check_data (lines 478-503)
check_data(d) ==
    LET mnt == \E i \in 1..Len(d.mounts) :
                   contains_data(d.mounts[i]) /\ ~contains_tmpfs(d.mounts[i])
    IN  IF mnt
        THEN IF d.crypto # ""
             THEN (IF d.crypto = "unencrypted" THEN TRUE ELSE d.vold # "")
             ELSE TRUE
        ELSE FALSE

\* line.contains(" <point> "): a field with a space on both sides is <point>
contains(line, point) == \E i \in 2..(Len(line) - 1) : line[i] = <<point>>

\* one turn of the loop over the lines of /proc/mounts (lines 713-733);
\* s = [log, system_as_root, seperate_vendor]
mirror_line(s, line) ==
    IF contains(line, "/system_root")
    THEN [s EXCEPT !.log = Append(@, Ev("startup", "bind", <<"system_root", "system">>,
                                         MIRR(SysPath), NoAttr)),
                   !.system_as_root = TRUE]
    ELSE IF ~s.system_as_root /\ contains(line, "/system")
    THEN [s EXCEPT !.log = Append(@, Ev("startup", "mount", line[1], MIRR(SysPath),
                                         NoAttr))]
    ELSE IF contains(line, "/vendor")
    THEN [s EXCEPT !.log = @ \o <<Ev("startup", "mkdir", <<>>, MIRR(VenPath), NoAttr),
                                   Ev("startup", "mount", line[1], MIRR(VenPath),
                                      NoAttr)>>,
                   !.seperate_vendor = TRUE]
    ELSE s

RECURSIVE mirror_lines(_, _)
mirror_lines(s, lines) ==
    IF lines = <<>> THEN s
    ELSE mirror_lines(mirror_line(s, Head(lines)), Tail(lines))

\* the mirrors of startup (lines 709-742): the loop, then the link that
\* stands for mirror/vendor on a device without a vendor partition
mount_mirrors(l, d, sep) ==
    LET s == mirror_lines([log |-> l, system_as_root |-> FALSE, seperate_vendor |-> sep],
                          d.mounts)
    IN  IF s.seperate_vendor THEN s
        ELSE [s EXCEPT !.log = Append(@, Ev("startup", "symlink", MIRR(SysVendor),
                                            MIRR(VenPath), NoAttr))]

\* a startup that goes on without the secure directory
stops_without_data(data, secure) == ~data
\* whether startup unblocks the boot and stops (lines 561-570)
startup_stops(data, secure) == ~data \/ ~secure

\* startup (lines 559-753): it stops at a failed check, or sets up the
\* mirrors and hands off to post-fs-data
Startup ==
    /\ spc = "idle"
    /\    IF startup_stops(check_data(dev), "secure_dir" \in files)
          THEN /\ log' = log \o unblock_boot_process("startup")
               /\ files' = files \cup {"unblock"}
               /\ spc' = "aborted"
               /\ UNCHANGED seperate_vendor
          ELSE /\ LET m == mount_mirrors(
                               log \o
                               (IF "disable" \in files THEN <<>>
                                ELSE <<Ev("startup", "simple_mount", <<>>, SysPath, NoAttr),
                                       Ev("startup", "simple_mount", <<>>, VenPath,
                                          NoAttr)>>)
                               \o <<Ev("startup", "unlock_blocks", <<>>, <<>>, NoAttr),
                                    Ev("startup", "tmpfs", <<"tmpfs">>, <<"sbin">>,
                                       NoAttr)>>,
                               dev, seperate_vendor)
                  IN  /\ log' = Append(m.log, Ev("startup", "exec", <<"--post-fs-data">>,
                                                 <<>>, NoAttr))
                      /\ seperate_vendor' = m.seperate_vendor
               /\ spc' = "handoff"
               /\ UNCHANGED files
    /\ UNCHANGED <<live, dev, modfs, module_list, setup_done, pc, lpc, bpc, buf2>>
    /\ UNCHANGED treevars

\* the flag left as it was
left_unset(old) == old
\* the value post_fs_data gives setup_done on entry (line 772)
entered(old) == TRUE

\* LOGI(...)
LOGI(who, line) == Ev(who, "LOGI", <<line>>, <<>>, NoAttr)

\* the entry with the flag set before the client is answered
flag_before_ack ==
    <<Ev("post_fs_data", "setup_done", <<>>, <<>>, NoAttr)>>
    \o ack("post_fs_data")
    \o <<Ev("post_fs_data", "remount", <<>>, <<>>, NoAttr),
         Ev("post_fs_data", "start_log_daemon", <<>>, <<>>, NoAttr),
         LOGI("post_fs_data", "** post-fs-data mode running")>>
\* the effects of post_fs_data up to prepare_img, in order (lines 768-779)
post_fs_data_entry ==
    ack("post_fs_data")
    \o <<Ev("post_fs_data", "setup_done", <<>>, <<>>, NoAttr),
         Ev("post_fs_data", "remount", <<>>, <<>>, NoAttr),
         Ev("post_fs_data", "start_log_daemon", <<>>, <<>>, NoAttr),
         LOGI("post_fs_data", "** post-fs-data mode running")>>

PfdEnter ==
    /\ spc = "handoff" /\ pc = "idle" /\ lpc = "idle"
    /\ log' = log \o post_fs_data_entry
    /\ setup_done' = entered(setup_done)
    /\ pc' = "pfd_prepare"
    /\ UNCHANGED <<seperate_vendor, live, dev, modfs, module_list, spc, lpc, bpc, buf2,
                   files>>
    /\ UNCHANGED treevars

\* a post_fs_data that returns at once when prepare_img fails
return_when_failed(ret) == IF ret # 0 THEN "pfd_done" ELSE "pfd_scripts"
\* where post_fs_data goes when prepare_img returns ret (line 783)
after_prepare(ret) == IF ret # 0 THEN "pfd_core_only" ELSE "pfd_scripts"

PfdPrepareImg ==
    /\ pc = "pfd_prepare"
    /\ \E fail \in {"none", "merge", "create", "mount", "trim"}, left \in BOOLEAN :
          /\ fail = "none" \/ CanFail(fail, files)
          /\ fail # "trim" => left
             \/ fail = "trim"
          /\ LET r == prepare_img(fail, left)
             IN  /\ log' = Append(r.log, Ev("post_fs_data", "prepare_img",
                                            <<fail>>, <<>>, NoAttr))
                 /\ modfs' = r.fs
                 /\ module_list' = r.list
                 /\ files' = r.files
                 /\ pc' = after_prepare(r.ret)
    /\ UNCHANGED <<seperate_vendor, live, dev, setup_done, spc, lpc, bpc, buf2>>
    /\ UNCHANGED treevars

\* restorecon, chmod and the post-fs-data.d scripts (lines 789-794)
PfdCommonScripts ==
    /\ pc = "pfd_scripts"
    /\ LET s == exec_common_script(
                    [log |-> log \o <<Ev("post_fs_data", "restorecon", <<>>, <<>>, NoAttr),
                                      Ev("post_fs_data", "chmod", <<>>, <<"SECURE_DIR">>,
                                         NoAttr)>>,
                     buf2 |-> buf2], "post_fs_data", "post-fs-data")
       IN  log' = s.log /\ buf2' = s.buf2
    /\ pc' = "pfd_disable"
    /\ UNCHANGED <<seperate_vendor, live, dev, modfs, module_list, setup_done, spc,
                   lpc, bpc, files>>
    /\ UNCHANGED treevars

\* the core-only test, the module scripts and the empty trees (lines 797-812)
PfdModuleScripts ==
    /\ pc = "pfd_disable"
    /\ IF "disable" \in files
       THEN /\ pc' = "pfd_core_only"
            /\ UNCHANGED <<log, buf2, sys_root, ven_root, has_modules, mi>>
       ELSE /\ LET s == exec_module_script([log |-> log, buf2 |-> buf2],
                                           "post_fs_data", "post-fs-data", module_list)
               IN  log' = s.log /\ buf2' = s.buf2
            /\ sys_root' = (SysPath :> RootNode)
            /\ ven_root' = NoTree
            /\ has_modules' = FALSE
            /\ mi' = 1
            /\ pc' = "pfd_load"
    /\ UNCHANGED <<seperate_vendor, live, dev, modfs, module_list, setup_done, spc,
                   lpc, bpc, files, ilog, view>>

\* delete sys_root; delete ven_root (lines 853-855)
PfdCleanup ==
    /\ pc = "pfd_cleanup"
    /\ sys_root' = NoTree
    /\ ven_root' = NoTree
    /\ pc' = "pfd_core_only"
    /\ UNCHANGED <<seperate_vendor, live, dev, modfs, module_list, setup_done, spc,
                   lpc, bpc, files, log, ilog, view, buf2, has_modules, mi>>

\* core_only (lines 755-764)
CoreOnly ==
    /\ pc = "pfd_core_only"
    /\ \E hide \in BOOLEAN :
          log' = log
                 \o (IF "hosts" \in files
                     THEN <<Ev("core_only", "bind", <<"HOSTSFILE">>, P_hosts, NoAttr)>>
                     ELSE <<>>)
                 \o auto_start_magiskhide("core_only", hide)
                 \o unblock_boot_process("core_only")
    /\ files' = files \cup {"unblock"}
    /\ pc' = "pfd_done"
    /\ UNCHANGED <<seperate_vendor, live, dev, modfs, module_list, setup_done, spc,
                   lpc, bpc, buf2>>
    /\ UNCHANGED treevars

\* a late_start that goes on whatever the flag says
never_reboot(done) == FALSE
\* whether late_start reboots instead of going on (line 871)
must_reboot(done) == ~done

\* the controller takes a boot-stage request when the handler before it, at
\* position p, has returned: the handlers run one at a time on one thread
controller_free(p) == p \in {"idle", "pfd_done"}

\* late_start up to the setup_done test (lines 861-875)
LsEnter ==
    /\ lpc = "idle"
    /\ spc # "idle" /\ controller_free(pc)
    /\ LET l1 == Append(log, LOGI("late_start", "** late_start service mode running"))
                 \o ack("late_start")
                 \o (IF "secure_dir" \in files THEN <<>>
                     ELSE <<Ev("late_start", "mkdir", <<>>, <<"SECURE_DIR">>, NoAttr)>>)
       IN  IF must_reboot(setup_done)
           THEN /\ log' = Append(l1, Ev("late_start", "reboot", <<>>, <<>>, NoAttr))
                /\ lpc' = "ls_done"
           ELSE /\ \E hide \in BOOLEAN :
                      log' = l1 \o auto_start_magiskhide("late_start", hide)
                /\ lpc' = "ls_scripts"
    /\ files' = files \cup {"secure_dir"}
    /\ UNCHANGED <<seperate_vendor, live, dev, modfs, module_list, setup_done, pc, spc,
                   bpc, buf2>>
    /\ UNCHANGED treevars

\* the service.d scripts and the module service scripts (lines 879-888)
LsScripts ==
    /\ lpc = "ls_scripts"
    /\ LET s1 == exec_common_script([log |-> log, buf2 |-> buf2], "late_start", "service")
           s2 == IF "disable" \in files THEN s1
                 ELSE exec_module_script(s1, "late_start", "service", module_list)
       IN  log' = s2.log /\ buf2' = s2.buf2
    /\ lpc' = "ls_manager"
    /\ UNCHANGED <<seperate_vendor, live, dev, modfs, module_list, setup_done, pc, spc,
                   bpc, files>>
    /\ UNCHANGED treevars

\* the manager application and the cleanup (lines 890-911)
LsManager ==
    /\ lpc = "ls_manager"
    /\ \E apk \in BOOLEAN, stub \in BOOLEAN :
          log' = log \o
                 (IF apk \/ stub
                  THEN <<Ev("late_start", "install_apk", <<"/data/magisk.apk">>, <<>>,
                            NoAttr)>>
                  ELSE <<>>)
    /\ module_list' = <<>>
    /\ lpc' = "ls_done"
    /\ UNCHANGED <<seperate_vendor, live, dev, modfs, setup_done, pc, spc, bpc, buf2,
                   files>>
    /\ UNCHANGED treevars

\* boot_complete (lines 914-921)
BootComplete ==
    /\ bpc = "idle" /\ lpc = "ls_done"
    /\ log' = Append(log, LOGI("boot_complete", "** boot_complete triggered"))
              \o ack("boot_complete")
              \o <<Ev("boot_complete", "unlink", <<>>, <<"BOOTCOUNT">>, NoAttr)>>
    /\ bpc' = "bc_done"
    /\ UNCHANGED <<seperate_vendor, live, dev, modfs, module_list, setup_done, pc, spc,
                   lpc, buf2, files>>
    /\ UNCHANGED treevars

----------------------------------------------------------------------------
(* The whole boot *)

BootFile(name, kind) == Only(<<name>>, kind)
Scripts ==
    BootFile("post-fs-data.sh", "REG") @@ BootFile("service.sh", "REG")
        @@ BootFile("system.prop", "REG")
HostsModule ==
    BootFile("auto_mount", "REG") @@ Only(SysPath, "DIR") @@ Only(P_etc, "DIR")
        @@ Only(P_hosts, "REG")

\* the module directories an image may hold
BootModules ==
    {HostsModule @@ Scripts,
     BootFile("auto_mount", "REG") @@ Only(SysPath, "DIR") @@ Only(P_f1, "REG"),
     BootFile("auto_mount", "REG") @@ Only(SysPath, "DIR") @@ Only(SysVendor, "DIR")
        @@ Only(P_lib, "REG") @@ BootFile("service.sh", "REG"),
     Unmounted @@ Scripts,
     HostsModule @@ Scripts @@ BootFile("disable", "REG") @@ BootFile("update", "REG"),
     HostsModule @@ Scripts @@ BootFile("remove", "REG"),
     HostsModule @@ BootFile("update", "REG")}

\* no image yet, or an ext4 image with its lost+found and the modules
BootImages ==
    {NoFiles} \cup
    {mods @@ ("lost+found" :> NoFiles) :
        mods \in UNION {[{ModName[i] : i \in 1..k} -> BootModules] : k \in 1..MaxModules}}

BootLive ==
    {c \in LiveConfigs :
        /\ P_hosts \in DOMAIN c.live /\ c.live[P_hosts] = "REG"
        /\ P_sub \notin DOMAIN c.live
        /\ Cardinality(DOMAIN c.live) = 6}

InitBoot ==
    /\ \E c \in BootLive : live = c.live /\ dev \in BootDevices(c.sep)
    /\ seperate_vendor = FALSE
    /\ modfs \in BootImages
    /\ \E fl \in SUBSET {"secure_dir", "disable", "hosts", "common"} :
          files = (fl \ {"common"})
                  \cup (IF "common" \in fl
                        THEN {"common_post-fs-data", "common_service"} ELSE {})
                  \cup (IF modfs = <<>> THEN {} ELSE {"mainimg", "img_readme"})
    /\ module_list = <<>>
    /\ setup_done = FALSE
    /\ pc = "idle" /\ spc = "idle" /\ lpc = "idle" /\ bpc = "idle"
    /\ mi = 1
    /\ has_modules = FALSE
    /\ sys_root = NoTree
    /\ ven_root = NoTree
    /\ log = <<>>
    /\ ilog = <<>>
    /\ view = <<>>
    /\ buf2 = <<>>

BootNext ==
    \/ Startup \/ PfdEnter \/ PfdPrepareImg \/ PfdCommonScripts \/ PfdModuleScripts
    \/ LoadModule \/ Extract \/ SkipMount \/ MagicMountSys \/ MagicMountVen
    \/ PfdCleanup \/ CoreOnly \/ LsEnter \/ LsScripts \/ LsManager \/ BootComplete

BootSpec == InitBoot /\ [][BootNext]_vars

\* a step of the thread that runs post_fs_data, once the handler is entered
PfdStep ==
    \/ PfdPrepareImg \/ PfdCommonScripts \/ PfdModuleScripts
    \/ LoadModule \/ Extract \/ SkipMount \/ MagicMountSys \/ MagicMountVen
    \/ PfdCleanup \/ CoreOnly

\* the positions of post_fs_data between its entry and its return
PfdRunning ==
    {"pfd_prepare", "pfd_scripts", "pfd_disable", "pfd_load", "pfd_mount_sys",
     "pfd_mount_ven", "pfd_cleanup", "pfd_core_only"}

\* the thread of post_fs_data moves on: it leaves its position, or takes
\* the next module of the list. In the boot these are the steps of PfdStep,
\* and one of them is possible at every position of PfdRunning
PfdAdvance ==
    /\ pc \in PfdRunning
    /\ pc' \in PfdRunning \cup {"pfd_done"}
    /\ mi' \in {mi, mi + 1}

\* the whole boot with a thread of post_fs_data that goes on until the
\* handler returns: every script it waits for ends, and no other handler
\* runs meanwhile
BootFairSpec == InitBoot /\ [][BootNext]_vars /\ WF_<<pc, mi>>(PfdAdvance)

\* startup alone, on every device
InitData ==
    /\ \E c \in BootLive : live = c.live
    /\ dev \in Devices \cup MirrorDevices
    /\ seperate_vendor = FALSE
    /\ modfs = <<>>
    /\ files \in {{}, {"secure_dir"}}
    /\ module_list = <<>>
    /\ setup_done = FALSE
    /\ pc = "idle" /\ spc = "idle" /\ lpc = "idle" /\ bpc = "idle"
    /\ mi = 1
    /\ has_modules = FALSE
    /\ sys_root = NoTree
    /\ ven_root = NoTree
    /\ log = <<>>
    /\ ilog = <<>>
    /\ view = <<>>
    /\ buf2 = <<>>

DataSpec == InitData /\ [][Startup]_vars

----------------------------------------------------------------------------
(* Properties of the tree and of the mount pass *)

\* the path a node of the system tree has once the vendor subtree is a tree
\* of its own
Target(p) == IF IsPrefix(SysVendor, p) THEN VenPath \o SubSeq(p, 3, Len(p)) ELSE p

\* the module asks for a mount (lines 822-829)
Constructs(module) == Has(module, <<"auto_mount">>) /\ Has(module, SysPath)

\* every module of the registry has been walked
TreesBuilt == mi > Len(module_list)
MountsDone == pc = "pfd_cleanup"

\* the node the trees keep for the system path p, if any
Kept(p) ==
    IF p \in DOMAIN sys_root THEN {sys_root[p]}
    ELSE IF Target(p) \in DOMAIN ven_root THEN {ven_root[Target(p)]}
    ELSE {}

\* the mounts of the two magic_mount passes, as indices of log
Mounts ==
    {i \in 1..Len(log) : /\ log[i].who \in {"magic_sys", "magic_ven"}
                         /\ log[i].op \in {"bind", "tmpfs"}}

\* the first module of the registry and a later one both supply a regular
\* file for p, and p exists on the device
Contended(b, p) ==
    /\ Len(module_list) >= 2 /\ TreesBuilt /\ pc # "idle"
    /\ b \in 2..Len(module_list)
    /\ Constructs(module_list[1]) /\ Constructs(module_list[b])
    /\ Has(module_list[1], p) /\ modfs[module_list[1]][p] = "REG"
    /\ Has(module_list[b], p) /\ modfs[module_list[b]][p] = "REG"
    /\ IsPrefix(SysPath, p) /\ access(p)

AllPaths == UNION {DOMAIN modfs[m] : m \in DOMAIN modfs}

\* the module whose file wins the path p: the node kept for p is owned by
\* it, and every bind-mount on p has its file as the source
Wins(module, p) ==
    /\ \A n \in Kept(p) : n.module = module
    /\ \A i \in Mounts : log[i].op = "bind" /\ log[i].dst = Target(p)
                            => log[i].src = MNT(module, Target(p))

\* C1 as the code has it: when the first module a of the registry and a
\* later module b both supply a regular file for a path that exists on the
\* device, the node kept for the path is owned by a, the module inserted
\* first, and the bind-mount on the path has a's file as its source: insert
\* discards b's node, whose status is not higher.
C1_FirstInsertedWins ==
    \A b \in 1..Len(module_list), p \in AllPaths :
        Contended(b, p) => Wins(module_list[1], p)

\* C1 as stated: the node is owned by b, the module inserted last, and the
\* bind-mount has b's file as its source.
C1_LastInsertedWins ==
    \A b \in 1..Len(module_list), p \in AllPaths :
        Contended(b, p) => Wins(module_list[b], p)

\* a contended path has been bind-mounted from the first module's file
C1_Witness ==
    \E b \in 1..Len(module_list), p \in AllPaths :
        /\ Contended(b, p) /\ MountsDone
        /\ \E i \in Mounts : /\ log[i].op = "bind" /\ log[i].dst = Target(p)
                             /\ log[i].src = MNT(module_list[1], Target(p))

\* the precedence of a status under MODULE > SKEL > INTER > DUMMY: that of
\* its highest bit
Rank(status) ==
    IF HasBit(status, IS_MODULE) THEN 4
    ELSE IF HasBit(status, IS_SKEL) THEN 3
    ELSE IF HasBit(status, IS_INTER) THEN 2
    ELSE IF HasBit(status, IS_DUMMY) THEN 1
    ELSE 0

\* C2: an insert that meets a child of the same name replaces it, subtree
\* and all, exactly when the new node's status has strictly higher
\* precedence than the child's; otherwise the child stays as it was, with
\* its status, owner and subtree.
C2_InsertPrecedence ==
    \A i \in 1..Len(ilog) :
        LET r == ilog[i]
        IN  r.collide =>
              /\ r.replaced <=> Rank(r.new.status) > Rank(r.old[r.path].status)
              /\ r.replaced => r.kept = (r.path :> r.new)
              /\ ~r.replaced => r.kept = r.old

\* both outcomes of a collision: a child replaced together with its
\* subtree, and a new node discarded
C2_Witness ==
    /\ \E i \in 1..Len(ilog) :
          /\ ilog[i].collide /\ ilog[i].replaced
          /\ Cardinality(DOMAIN ilog[i].old) > 1
    /\ \E i \in 1..Len(ilog) : ilog[i].collide /\ ~ilog[i].replaced

\* the clone condition as the comment of create_module_tree states it: the
\* entry is a symlink, its target does not exist, or its target is a
\* symlink other than /system/vendor
StatedCloneCondition(p, name, kind) ==
    \/ kind = "LNK"
    \/ ~access(Append(p, name))
    \/ /\ live[Resolve(Append(p, name))] = "LNK"
       /\ ~(is_root(p) /\ name = "vendor")

\* some module that walks the directory p supplies an entry in it that
\* meets the stated clone condition
HasCloneEntry(p) ==
    \E i \in 1..Len(module_list) :
        LET module == module_list[i]
        IN  /\ Constructs(module) /\ ModIsDir(module, p)
            /\ \E name \in ChildNames(modfs[module], p) :
                  StatedCloneCondition(p, name, d_type(modfs[module][Append(p, name)]))

\* a directory node that the modules' walks went into
WalkedDir(n) ==
    /\ n.type \in {"DIR", "NONE"}
    /\ HasBit(n.status, IS_INTER) \/ HasBit(n.status, IS_SKEL)
    /\ ~HasBit(n.status, IS_MODULE)

\* C3 as stated: once every module is walked, a directory of the tree that
\* is not bind-mounted wholesale carries SKEL exactly when a module supplies
\* an entry directly inside it that meets the clone condition, and
\* magic_mount mounts a tmpfs on exactly the directories that carry SKEL.
C3_SkeletonIffCloneEntry ==
    /\ TreesBuilt /\ pc = "pfd_load" =>
          \A p \in DOMAIN sys_root :
              WalkedDir(sys_root[p])
              => (HasBit(sys_root[p].status, IS_SKEL) <=> HasCloneEntry(p))
    /\ MountsDone =>
          \A p \in DOMAIN sys_root \cup DOMAIN ven_root :
              LET n == IF p \in DOMAIN sys_root THEN sys_root[p] ELSE ven_root[p]
              IN  WalkedDir(n)
                  => (HasBit(n.status, IS_SKEL)
                         <=> \E i \in Mounts : log[i].op = "tmpfs" /\ log[i].dst = p)

\* C4: over magic_mount on the system tree and then on the vendor tree, no
\* two mounts, bind or tmpfs, have the same target path, whether the paths
\* are compared as written or as the device resolves them.
C4_NoTwoMountsOnOneTarget ==
    \A i, j \in Mounts :
        i # j => log[i].dst # log[j].dst /\ Resolve(log[i].dst) # Resolve(log[j].dst)

\* both passes have mounted, the system pass a skeleton and a file
C4_Witness ==
    /\ MountsDone
    /\ \E i, j, k \in Mounts :
          /\ log[i].who = "magic_sys" /\ log[i].op = "tmpfs"
          /\ log[j].who = "magic_sys" /\ log[j].op = "bind"
          /\ log[k].who = "magic_ven"

\* a bind-mount of a file a module supplies under system/vendor
FromModuleVendor(e) ==
    /\ e.op = "bind" /\ Len(e.src) >= 3 /\ e.src[1] = "MNT"
    /\ \/ e.src[3] = "vendor"
       \/ Len(e.src) >= 4 /\ e.src[3] = "system" /\ e.src[4] = "vendor"

SeparateVendor == seperate_vendor /\ live[SysVendor] = "LNK"

\* C5: with /system/vendor a symlink and a vendor partition of its own, the
\* pass over the system tree mounts nothing at /system/vendor or beneath
\* it, and what the modules supply under system/vendor is mounted by the
\* pass over the vendor tree alone, at paths under /vendor.
C5_VendorLeftToVendorTree ==
    SeparateVendor =>
        \A i \in Mounts :
            /\ log[i].who = "magic_sys" => ~IsPrefix(SysVendor, log[i].dst)
            /\ log[i].who = "magic_ven" => IsPrefix(VenPath, log[i].dst)
            /\ FromModuleVendor(log[i]) =>
                  log[i].who = "magic_ven" /\ IsPrefix(VenPath, log[i].dst)

\* /system itself was skeletonized and the vendor tree has mounted a file
C5_Witness ==
    /\ SeparateVendor /\ MountsDone
    /\ \E i, j \in Mounts :
          /\ log[i].who = "magic_sys" /\ log[i].op = "tmpfs" /\ log[i].dst = SysPath
          /\ log[j].who = "magic_ven" /\ FromModuleVendor(log[j])

\* C6 as stated: the attributes set on every tmpfs that skeleton synthesis
\* mounts are those the same path has on the device before any overlay.
C6_SkeletonKeepsLiveAttributes ==
    \A i \in 1..Len(log) :
        log[i].op = "setattr" => log[i].attr = LiveAttr(log[i].dst)

----------------------------------------------------------------------------
(* Properties of the boot stages *)

\* the indices of log at which op is done by one of the handlers in who
Did(who, ops) == {i \in 1..Len(log) : log[i].who \in who /\ log[i].op \in ops}

\* prepare_img has returned, and returned nonzero
PrepareFailed ==
    \E i \in 1..Len(log) : log[i].op = "prepare_img" /\ log[i].src # <<"none">>
PrepareSucceeded ==
    \E i \in 1..Len(log) : log[i].op = "prepare_img" /\ log[i].src = <<"none">>

AnyStage == {"startup", "post_fs_data", "magic_sys", "magic_ven", "core_only",
             "late_start", "boot_complete"}

\* C7 as stated: when image preparation fails, at whichever step, no module
\* script of either stage runs, no system.prop is loaded and no magic mount
\* is made for the rest of the boot.
C7_NoModuleLogicAfterFailedPrepare ==
    PrepareFailed =>
        /\ Did(AnyStage, {"exec_module", "load_prop"}) = {}
        /\ Did({"magic_sys", "magic_ven"}, {"bind", "tmpfs"}) = {}

\* post_fs_data has been entered
Entered == pc # "idle"

\* C8 as the code has it: setup_done is true only if post-fs-data has been
\* entered; it is set on entry, before image preparation, so a run whose
\* image preparation fails still leaves it set.
C8_SetOnEntry ==
    /\ setup_done => Entered /\ Did({"post_fs_data"}, {"write_int"}) # {}
    /\ PrepareFailed => setup_done

\* C8 as stated: setup_done is true only if post-fs-data has been entered
\* and prepare_img has returned success; after a failed preparation it is
\* unset.
C8_SetAfterPrepare ==
    /\ setup_done => Entered /\ PrepareSucceeded
    /\ PrepareFailed => ~setup_done

\* post_fs_data has ended after a failed image preparation
C8_Witness == PrepareFailed /\ pc = "pfd_done" /\ setup_done

\* C9: a late_start that finds setup_done unset asks for a reboot and is
\* over: it starts no hide daemon, runs no service.d script and no module
\* service script, and installs no manager.
C9_RebootWhenSetupIncomplete ==
    lpc # "idle" /\ ~setup_done =>
        /\ lpc = "ls_done"
        /\ Did({"late_start"}, {"reboot"}) # {}
        /\ Did({"late_start"},
               {"magiskhide", "exec_common", "exec_module", "install_apk"}) = {}
        /\ \A i \in Did({"late_start"}, {"reboot"}), j \in 1..Len(log) :
              j > i => log[j].who # "late_start"

\* late_start has run on a boot whose post-fs-data stage never started
C9_Witness ==
    /\ lpc = "ls_done" /\ ~setup_done /\ ~Entered
    /\ Did({"late_start"}, {"reboot"}) # {}

\* what a stage does, in order, log lines left out: the handler's own
\* effects and those of the functions it calls
StageOf(h) ==
    IF h = "post_fs_data" THEN {"post_fs_data", "magic_sys", "magic_ven", "core_only"}
    ELSE {h}
Effects(h) == SelectSeq(log, LAMBDA e : e.who \in StageOf(h) /\ e.op # "LOGI")

IsAck(e) == e.op = "write_int" /\ e.src = <<"0">> /\ e.dst = <<"client">>
IsClose(e) == e.op = "close" /\ e.dst = <<"client">>

\* C10: the first thing each of post_fs_data, late_start and boot_complete
\* does, log lines apart, is to write 0 to the client and close it; it
\* writes to the client once and closes it once.
C10_AckBeforeAnythingElse ==
    /\ \A h \in {"post_fs_data", "late_start", "boot_complete"} :
          LET E == Effects(h)
          IN  E # <<>> =>
                /\ Len(E) >= 2 /\ IsAck(E[1]) /\ IsClose(E[2])
                /\ \A i \in 3..Len(E) : E[i].op \notin {"write_int", "close"}
    /\ pc # "idle" => Effects("post_fs_data") # <<>>
    /\ lpc # "idle" => Effects("late_start") # <<>>
    /\ bpc # "idle" => Effects("boot_complete") # <<>>

\* the three stages have run, with scripts and mounts in between
C10_Witness ==
    /\ pc = "pfd_done" /\ lpc = "ls_done" /\ bpc = "bc_done"
    /\ Did({"post_fs_data"}, {"exec_module"}) # {}
    /\ Did({"magic_sys"}, {"bind"}) # {}
    /\ Did({"late_start"}, {"exec_module", "install_apk"}) # {}

----------------------------------------------------------------------------
(* Properties of startup *)

\* the secure directory existed when startup ran: late_start creates it
\* only when it is missing
SecureDirAtStartup == "secure_dir" \in files /\ Did({"late_start"}, {"mkdir"}) = {}

\* what startup has done, in order
StartupEffects == SelectSeq(log, LAMBDA e : e.who = "startup")

\* C11: when check_data finds /data not usable, or the secure directory
\* does not exist, startup creates the unblock file and stops: that is all
\* it does (no simple mount, no unlock_blocks, no /sbin overlay, no mirror)
\* and post-fs-data is never entered.
C11_StartupStopsAtFailedCheck ==
    spc # "idle" /\ (~check_data(dev) \/ ~SecureDirAtStartup) =>
        /\ spc = "aborted"
        /\ "unblock" \in files
        /\ StartupEffects = unblock_boot_process("startup")
        /\ pc = "idle" /\ ~setup_done
        /\ Did({"post_fs_data", "magic_sys", "magic_ven", "core_only"},
               {"write_int", "bind", "tmpfs", "exec_module", "exec_common"}) = {}

\* /data was usable but the secure directory was missing, and the boot
\* has gone on to late_start
C11_Witness ==
    /\ spc = "aborted" /\ check_data(dev) /\ ~SecureDirAtStartup
    /\ lpc = "ls_done"

\* the decryption gate as stated: a line for mount point /data whose type
\* is not tmpfs, and ro.crypto.state unencrypted or unset, or init.svc.vold
\* not empty
StatedUsable(d) ==
    /\ \E i \in 1..Len(d.mounts) :
          d.mounts[i][2] = <<"/data">> /\ d.mounts[i][3] # <<"tmpfs">>
    /\ d.crypto = "unencrypted" \/ d.crypto = "" \/ d.vold # ""

\* C20 as stated: with the secure directory in place, startup goes on
\* exactly when /proc/mounts has a line for /data that is not tmpfs and the
\* crypto state is unencrypted or unset or vold is started.
C20_UsableIffStated ==
    spc # "idle" /\ "secure_dir" \in files =>
        ((spc = "handoff") <=> StatedUsable(dev))

----------------------------------------------------------------------------
(* Claims about prepare_img *)

\* the step in which prepare_img got as far as enumerating the mountpoint
Enumerates ==
    /\ pc = "pfd_prepare"
    /\ log' # <<>>
    /\ log'[Len(log')].op = "prepare_img"
    /\ log'[Len(log')].src \in {<<"none">>, <<"trim">>}

\* the directories at the top of the image that stand for modules
ModuleDirs == DOMAIN modfs \ {".core", "lost+found", ".", ".."}
Marked(m, marker) == <<marker>> \in DOMAIN modfs[m]

\* C12: after the enumeration the module list holds, once each, exactly the
\* top-level directories other than .core, lost+found, . and .. that carry
\* neither remove nor disable; a module with remove is gone from the image;
\* a module with disable is still there with every file but update as it
\* was; and no module left in the image has an update marker.
C12_EnumerationOutcome ==
    [][Enumerates =>
        /\ {module_list'[i] : i \in 1..Len(module_list')} =
               {m \in ModuleDirs : ~Marked(m, "remove") /\ ~Marked(m, "disable")}
        /\ \A i, j \in 1..Len(module_list') : module_list'[i] = module_list'[j] => i = j
        /\ \A m \in ModuleDirs :
              /\ Marked(m, "remove") => m \notin DOMAIN modfs'
              /\ ~Marked(m, "remove") =>
                    /\ m \in DOMAIN modfs'
                    /\ <<"update">> \notin DOMAIN modfs'[m]
                    /\ DOMAIN modfs'[m] = DOMAIN modfs[m] \ {<<"update">>}
                    /\ \A q \in DOMAIN modfs'[m] : modfs'[m][q] = modfs[m][q]
        /\ \A d \in DOMAIN modfs \ ModuleDirs : d \in DOMAIN modfs' /\ modfs'[d] = modfs[d]
    ]_vars

\* the enumeration has listed one module, deleted one, and left a disabled
\* one in the image, while lost+found and the regular file were passed over
C12_Witness ==
    /\ pc = "pfd_scripts"
    /\ "img_readme" \in files /\ "lost+found" \in DOMAIN modfs /\ ".core" \in DOMAIN modfs
    /\ module_list # <<>>
    /\ \/ Did({"post_fs_data"}, {"rm_rf"}) # {}
       \/ \E m \in DOMAIN modfs : m \notin {".core", "lost+found"} /\ Marked(m, "disable")

----------------------------------------------------------------------------
(* Claims about the order of the stages *)

\* a script of the service stage being started: one of service.d, or the
\* service.sh of a module
ServiceScript(e) ==
    \/ e.op = "exec_common" /\ e.src[2] = "service.d"
    \/ e.op = "exec_module" /\ Last(e.src) = "service.sh"
\* a mount made by magic_mount
MagicMount(e) == e.who \in {"magic_sys", "magic_ven"} /\ e.op \in {"bind", "tmpfs"}

----------------------------------------------------------------------------
(* Claims about the shapes of the overlay *)

\* a module that asks for a mount supplies something under system/vendor
VendorContributed ==
    \E m \in DOMAIN modfs : Constructs(m) /\ Has(m, SysVendor)
Extracted == pc \in {"pfd_mount_sys", "pfd_mount_ven", "pfd_cleanup"}

\* C14 as stated: without a vendor partition of its own the vendor child is
\* never detached from the system root, and every mount that comes from what
\* the modules supply under system/vendor is made by the pass over the
\* system tree at a path under /system/vendor.
C14_VendorStaysInSystemTree ==
    ~seperate_vendor =>
        /\ ven_root = NoTree
        /\ \A i \in Mounts :
              FromModuleVendor(log[i]) =>
                  log[i].who = "magic_sys" /\ IsPrefix(SysVendor, log[i].dst)

\* C14 as the code has it: without a vendor partition of its own the vendor
\* child is detached from the system root all the same and a node of no
\* module, without children, takes its place; every mount that comes from what the
\* modules supply under system/vendor is made by the pass over the vendor
\* tree at a path under /vendor, the symlink to /system/vendor, and the pass
\* over the system tree mounts nothing at /system/vendor or beneath it.
C14_VendorDetachedAnyway ==
    ~seperate_vendor /\ Extracted =>
        /\ VendorContributed =>
              /\ ven_root # NoTree
              /\ sys_root[SysVendor].module = NoModule
              /\ sys_root[SysVendor].children = <<>>
              /\ \A q \in DOMAIN sys_root : IsPrefix(SysVendor, q) => q = SysVendor
        /\ \A i \in Mounts :
              /\ log[i].who = "magic_sys" => ~IsPrefix(SysVendor, log[i].dst)
              /\ FromModuleVendor(log[i]) =>
                    /\ log[i].who = "magic_ven"
                    /\ IsPrefix(VenPath, log[i].dst)
                    /\ IsPrefix(SysVendor, Resolve(log[i].dst))

\* a device without a vendor partition on which the pass over the vendor
\* tree has mounted a module's file
C14_Witness ==
    /\ ~seperate_vendor /\ MountsDone /\ VendorContributed
    /\ \E i \in Mounts : FromModuleVendor(log[i]) /\ log[i].who = "magic_ven"

\* module m asks for a mount and supplies, with a .replace marker, the
\* directory p, which is a directory of the device
Replaces(m, p) ==
    /\ Constructs(m) /\ Has(m, p) /\ modfs[m][p] = "RDIR"
    /\ p \in DOMAIN live /\ live[p] = "DIR"
Beneath(p, q) == IsPrefix(p, q) /\ q # p

Dir(p) == SubSeq(p, 1, Len(p) - 1)

\* module m asks for a mount and supplies a regular file for q, which the
\* device does not have, in a directory that the device has
NewFile(m, q) ==
    /\ Constructs(m) /\ Has(m, q) /\ modfs[m][q] = "REG"
    /\ IsPrefix(SysPath, q) /\ Len(q) >= 2
    /\ ~access(q)
    /\ access(Dir(q)) /\ live[Resolve(Dir(q))] = "DIR"

\* some module that asks for a mount supplies p or a directory above it
\* with a .replace marker
Replaced(p) ==
    \E m \in DOMAIN modfs, r \in AllPaths :
        Constructs(m) /\ Has(m, r) /\ modfs[m][r] = "RDIR" /\ IsPrefix(r, p)

\* some module that asks for a mount supplies p
Overridden(p) == \E m \in DOMAIN modfs : Constructs(m) /\ Has(m, p)

\* the passes have made an effect op on the path p, as the system tree or
\* the vendor tree names it, from one of the sources when any are given
Made(op, srcs, p) ==
    \E i \in 1..Len(log) :
        /\ log[i].who \in {"magic_sys", "magic_ven"}
        /\ log[i].op = op /\ log[i].dst \in {p, Target(p)}
        /\ srcs # {} => log[i].src \in srcs

\* the placeholder of a mirror entry of kind k at p is there
Placed(k, p) ==
    IF k = "DIR" THEN Made("mkdir", {}, p)
    ELSE IF k = "REG" THEN Made("creat", {}, p)
    ELSE Made("cp_afc", {}, p)

\* every module that supplies q supplies a regular file
OnlyFiles(q) ==
    \A o \in DOMAIN modfs : Constructs(o) /\ Has(o, q) => modfs[o][q] = "REG"

\* C16 as stated, read for a P that no module replaces with .replace and a
\* file that no module supplies as anything else: when a module supplies a
\* regular file that the device does not have, in a directory P that it
\* has, the passes mount a tmpfs on P,
\* make a placeholder for every entry of mirror/P that no module supplies,
\* bind-mount each of these that is not a symlink from mirror/P/<name>, and
\* bind-mount the new file from a module: every entry the device has in P
\* is under P afterwards.
C16_SkeletonKeepsSiblings ==
    MountsDone =>
        \A m \in DOMAIN modfs, q \in AllPaths :
            NewFile(m, q) /\ ~Replaced(q) /\ OnlyFiles(q) =>
                LET P == Dir(q)
                IN  /\ Made("tmpfs", {}, P)
                    /\ \A name \in ChildNames(live, Resolve(P)) :
                          LET c == Append(P, name)
                              k == live[Append(Resolve(P), name)]
                          IN  ~Overridden(c) =>
                                /\ Placed(k, c)
                                /\ k # "LNK" =>
                                      Made("bind", {MIRR(c), MIRR(Target(c))}, c)
                    /\ \E o \in DOMAIN modfs :
                          /\ Has(o, q)
                          /\ Made("bind", {MNT(o, q), MNT(o, Target(q))}, q)

\* the entries the modules that ask for a mount supply under system/
Contributed ==
    {p \in AllPaths : /\ Beneath(SysPath, p)
                      /\ \E m \in DOMAIN modfs : Constructs(m) /\ Has(m, p)}
Supplies(m, p, k) == Constructs(m) /\ Has(m, p) /\ modfs[m][p] = k

\* what lstat reports for p on the device
TargetKind(p) == IF p \in DOMAIN live THEN live[p] ELSE live[Resolve(p)]

\* every entry the modules supply is a regular file or a directory without
\* .replace, and its target is on the device and is not a symlink
PlainOverlay ==
    \A p \in Contributed :
        /\ \A m \in DOMAIN modfs :
              Constructs(m) /\ Has(m, p) => modfs[m][p] \in {"REG", "DIR"}
        /\ access(p) /\ TargetKind(p) # "LNK"

\* the module whose node the tree keeps for p: the first of the registry
\* that supplies it
Owner(p) ==
    module_list[CHOOSE i \in 1..Len(module_list) :
                    /\ Constructs(module_list[i]) /\ Has(module_list[i], p)
                    /\ \A j \in 1..(i - 1) :
                          ~(Constructs(module_list[j]) /\ Has(module_list[j], p))]

\* C17: when every entry the modules supply is a regular file or a directory
\* without .replace whose target is on the device and is not a symlink, the
\* passes mount no tmpfs and make exactly one bind-mount for each path that
\* is supplied as a regular file, from the owner module's file to the path
\* (both as the tree that mounts them names them), and no other mount.
C17_PlainOverlayIsOneBindPerFile ==
    MountsDone /\ PlainOverlay =>
        LET Files == {p \in Contributed : \E m \in DOMAIN modfs : Supplies(m, p, "REG")}
        IN  /\ \A i \in Mounts : log[i].op = "bind"
            /\ \A p \in Files :
                  /\ Cardinality({i \in Mounts : log[i].dst \in {p, Target(p)}}) = 1
                  /\ \A i \in Mounts :
                        log[i].dst \in {p, Target(p)} =>
                            log[i].src = MNT(Owner(p), log[i].dst)
            /\ Cardinality(Mounts) = Cardinality(Files)

\* two modules supply the same file of the device, and the mounts are made
C17_Witness ==
    /\ MountsDone /\ PlainOverlay /\ Len(module_list) = 2
    /\ Supplies(module_list[1], P_hosts, "REG") /\ Supplies(module_list[2], P_hosts, "REG")
    /\ Cardinality(Mounts) = 1

----------------------------------------------------------------------------
(* Claims about the node tree *)

\* no node of the tree t has two children of one name
NoTwins(t) ==
    \A p \in DOMAIN t :
        \A i, j \in 1..Len(t[p].children) :
            t[p].children[i] = t[p].children[j] => i = j

\* C18: in every state of the node trees, after the inserts of
\* create_module_tree, the DUMMY inserts of clone_skeleton and extract, no
\* node has two children of one name.
C18_NoTwoChildrenOfOneName == NoTwins(sys_root) /\ NoTwins(ven_root)

\* the walk of a second module met a child of the first, a DUMMY insert met a
\* child of a module, and the vendor child was extracted
C18_Witness ==
    /\ MountsDone /\ ven_root # NoTree
    /\ \E i \in 1..Len(ilog) : ilog[i].collide /\ ilog[i].new.module # NoModule
    /\ \E i \in 1..Len(ilog) : ilog[i].collide /\ ilog[i].new.status = IS_DUMMY

\* the module the loop of post_fs_data walked last, when it asked for a mount
JustWalked ==
    IF pc = "pfd_load" /\ mi > 1 /\ Constructs(module_list[mi - 1])
    THEN {module_list[mi - 1]} ELSE {}

\* C19: create_module_tree for a module, run once more right after it ran
\* for that module, leaves the node tree as it is.
C19_WalkTwiceIsWalkOnce ==
    \A module \in JustWalked :
        create_module_tree([tree |-> sys_root, ilog |-> ilog, buf2 |-> buf2],
                           SysPath, module).tree = sys_root

\* the second module of the registry was walked: it met a node of the first
\* module, and a directory of the tree is marked as a skeleton
C19_Witness ==
    /\ JustWalked # {} /\ mi = 3
    /\ Constructs(module_list[1])
    /\ \E i \in 1..Len(ilog) : ilog[i].collide
    /\ \E p \in DOMAIN sys_root : p # SysPath /\ HasBit(sys_root[p].status, IS_SKEL)

----------------------------------------------------------------------------
(* Claims about the order of the mounts *)

\* the indices of log at which a pass mounts a tmpfs
Skeletons == {t \in Mounts : log[t].op = "tmpfs"}

\* C21: for every mount a pass makes at a path beneath a directory on which
\* a tmpfs is mounted, the tmpfs mount and the setattr that restores the
\* directory's attributes come earlier in the run, also when one skeleton
\* lies inside another.
C21_SkeletonBeforeDescendants ==
    \A t \in Skeletons, i \in Mounts :
        Beneath(Resolve(log[t].dst), Resolve(log[i].dst)) =>
            /\ t + 1 < i
            /\ log[t + 1].op = "setattr" /\ log[t + 1].dst = log[t].dst

\* a skeleton inside a skeleton, with a file of a module mounted in the
\* inner one
C21_Witness ==
    /\ MountsDone
    /\ \E t, u \in Skeletons, i \in Mounts :
          /\ Beneath(Resolve(log[t].dst), Resolve(log[u].dst))
          /\ Beneath(Resolve(log[u].dst), Resolve(log[i].dst))
          /\ log[i].op = "bind" /\ log[i].src[1] = "MNT"

----------------------------------------------------------------------------
(* Claims about the statuses of the nodes *)

\* C22 as stated: once create_module_tree has run for every module of the
\* registry, and from then on through extract and the mount passes, every
\* node of the system tree and of the vendor tree has a status other than 0.
C22_StatusNeverEmpty ==
    TreesBuilt =>
        /\ \A p \in DOMAIN sys_root : sys_root[p].status # 0
        /\ \A p \in DOMAIN ven_root : ven_root[p].status # 0

----------------------------------------------------------------------------
(* Claims about the mirrors *)

\* the lines of /proc/mounts that have a field <point>
LinesFor(point) == {i \in 1..Len(dev.mounts) : contains(dev.mounts[i], point)}
\* the mounts startup made onto mirror/system
OntoMirrorSystem ==
    {i \in 1..Len(log) : /\ log[i].who = "startup" /\ log[i].op \in {"bind", "mount"}
                         /\ log[i].dst = MIRR(SysPath)}

\* C23 as stated, read for a /proc/mounts that lists /system_root and
\* /system at most once each and at least one of them: in whatever order
\* the lines come, startup makes exactly one mount onto mirror/system, the
\* bind of /system_root/system when there is a line for /system_root and
\* the mount of the device of /system otherwise.
C23_OneMountOntoMirrorSystem ==
    /\ spc = "handoff"
    /\ Cardinality(LinesFor("/system_root")) <= 1
    /\ Cardinality(LinesFor("/system")) <= 1
    /\ LinesFor("/system_root") \cup LinesFor("/system") # {}
    => /\ Cardinality(OntoMirrorSystem) = 1
       /\ \A i \in OntoMirrorSystem :
             IF LinesFor("/system_root") # {}
             THEN log[i].op = "bind" /\ log[i].src = <<"system_root", "system">>
             ELSE log[i].op = "mount" /\ log[i].src = <<"/dev/block/dm-1">>

\* ---- skeletons and the entries of the device ----

\* the directories under system/ that the passes have mounted a tmpfs on
Skeletonized == {P \in AllPaths : IsPrefix(SysPath, P) /\ Made("tmpfs", {}, P)}

\* the entry c of the device, which no module supplies, is under its
\* skeletonized directory again: its placeholder is made and, unless it
\* is a symlink, which is copied, the mirror entry is bind-mounted on it
StillThere(c) ==
    LET k == live[Append(Resolve(Dir(c)), c[Len(c)])]
    IN  /\ Placed(k, c)
        /\ k # "LNK" => Made("bind", {MIRR(c), MIRR(Target(c))}, c)

\* C24 as stated: when the passes are over, every entry the device has in
\* a directory that was skeletonized, at any depth, and that no module
\* supplies, is under the tmpfs as a bind mount of its mirror entry or as
\* a copy of the symlink: a skeleton hides no entry that the modules leave
\* alone.
C24_SkeletonHidesNothing ==
    MountsDone =>
        \A P \in Skeletonized :
            \A name \in ChildNames(live, Resolve(P)) :
                ~Overridden(Append(P, name)) => StillThere(Append(P, name))


\* ---- leaves of the node tree ----

\* the nodes of tree t whose status includes MODULE
ModuleNodes(t) == {p \in DOMAIN t : HasBit(t[p].status, IS_MODULE)}

\* a node of tree t with MODULE has no other flag, no child and nothing
\* beneath it
Leaves(t) ==
    \A p \in ModuleNodes(t) :
        /\ t[p].status = IS_MODULE
        /\ t[p].children = <<>>
        /\ \A q \in DOMAIN t : ~Beneath(p, q)

\* C25: in every state of the system tree and of the vendor tree, a node
\* whose status includes MODULE has the status MODULE alone, without SKEL
\* and without INTER, and has no children: the walk of a module never goes
\* into a MODULE node and never adds SKEL to one.
C25_ModuleNodesAreLeaves == Leaves(sys_root) /\ Leaves(ven_root)

\* the first module replaces a directory of the device and holds a file in
\* it, the second supplies the same directory without the marker and a
\* file in it, both are walked, and the node of the directory is MODULE
C25_Witness ==
    /\ TreesBuilt /\ Len(module_list) = 2
    /\ Replaces(module_list[1], P_etc) /\ Has(module_list[1], P_hosts)
    /\ Constructs(module_list[2]) /\ Has(module_list[2], P_hosts)
    /\ modfs[module_list[2]][P_etc] = "DIR"
    /\ P_etc \in ModuleNodes(sys_root)


\* ---- the boot is unblocked ----

\* the places in the history where core_only creates the sentinel file
Unblocks ==
    {i \in 1..Len(log) : log[i].who = "core_only" /\ log[i].op = "unblock"}

\* the places where post_fs_data makes a mount: those of the two passes and
\* the bind mount of the systemless hosts file
PfdMounts ==
    {i \in 1..Len(log) :
        \/ log[i].who \in {"magic_sys", "magic_ven"} /\ log[i].op \in {"bind", "tmpfs"}
        \/ log[i].who = "core_only" /\ log[i].op = "bind"}

\* at most one signal, and no mount of post_fs_data after it
SignalLast ==
    /\ Cardinality(Unblocks) <= 1
    /\ \A u \in Unblocks, i \in PfdMounts : i < u

\* post_fs_data has returned with the sentinel file made, once
Signalled ==
    /\ pc = "pfd_done" /\ "unblock" \in files
    /\ Cardinality(Unblocks) = 1

\* C26: with every script ending, each run of post_fs_data, whether
\* prepare_img fails, the disable flag is there or the modules are
\* mounted, comes to create the sentinel file that unblocks the boot; it
\* creates it once, and after every mount it makes, those of the two
\* passes and the one of the hosts file.
C26_PostFsDataUnblocksBoot ==
    /\ [](SignalLast)
    /\ (pc = "pfd_prepare") ~> Signalled

\* post_fs_data has returned on the path that mounts the modules: a pass
\* has made a mount, the hosts file is bind-mounted, and the signal is given
C26_Witness ==
    /\ Signalled
    /\ \E i \in PfdMounts : log[i].who = "magic_sys"
    /\ \E i \in PfdMounts : log[i].who = "core_only"

=============================================================================
